---- MODULE Spec2Model ----
(***************************************************************************)
(* Model of the lead_identity_meta pipeline: merge_data.py (merge and      *)
(* duplicate partition), verify_merge.py (consistency checks) and          *)
(* add_to_zotero.py (three-strategy import of every canonical record).     *)
(* Strings are sequences of one-character strings so that lower(),         *)
(* strip(), slicing and the code-point order of a sort can be computed.    *)
(***************************************************************************)
EXTENDS Integers, Sequences, FiniteSets, TLC

\* ------------------------------------------------------------------ bounds
\* Most rows the two input spreadsheets hold together (merge and verifier).
MaxRows == 3

\* ----------------------------------------------------------------- strings
\* The printable ASCII characters in code-point order, 32 (space) to 126; the
\* quote, apostrophe, backslash and grave accent are held by name.
Printable ==
  << " ", "!", "QUOTE", "#", "$", "%", "&", "APOS", "(", ")", "*", "+", ",", "-", ".", "/",
     "0", "1", "2", "3", "4", "5", "6", "7", "8", "9", ":", ";", "<", "=", ">", "?",
     "@", "A", "B", "C", "D", "E", "F", "G", "H", "I", "J", "K", "L", "M", "N", "O",
     "P", "Q", "R", "S", "T", "U", "V", "W", "X", "Y", "Z", "[", "BACKSLASH", "]", "^", "_",
     "GRAVE", "a", "b", "c", "d", "e", "f", "g", "h", "i", "j", "k", "l", "m", "n", "o",
     "p", "q", "r", "s", "t", "u", "v", "w", "x", "y", "z", "{", "|", "}", "~" >>

OrdTable == [c \in {Printable[i] : i \in 1..Len(Printable)} |->
               31 + (CHOOSE i \in 1..Len(Printable) : Printable[i] = c)]

Ord(c) == OrdTable[c]

Chr(n) == Printable[n - 31]

\* A missing cell (numpy NaN / pandas NA) of a text column.
NaN == << "NaN" >>

isna(v) == v = NaN

notna(v) == v # NaN

\* A pandas nullable integer (Int64): a value or NA.
I64(n) == [na |-> FALSE, v |-> n]

NA == [na |-> TRUE, v |-> 0]

LowerChar(c) == IF Ord(c) >= 65 /\ Ord(c) <= 90 THEN Chr(Ord(c) + 32) ELSE c

lower(s) == [i \in 1..Len(s) |-> LowerChar(s[i])]

RECURSIVE lstrip(_)
lstrip(s) == IF s # << >> /\ Head(s) = " " THEN lstrip(Tail(s)) ELSE s

RECURSIVE rstrip(_)
rstrip(s) == IF s # << >> /\ s[Len(s)] = " " THEN rstrip(SubSeq(s, 1, Len(s) - 1)) ELSE s

strip(s) == rstrip(lstrip(s))

\* A spreadsheet cell typed as a number, held with its digits.
NumCell(digits) == << "NUM" >> \o digits

is_number(v) == v # << >> /\ Head(v) = "NUM"

\* str(): a missing cell prints as the text nan, a number as its digits.
astype_str(v) ==
  IF isna(v) THEN << "n", "a", "n" >> ELSE IF is_number(v) THEN Tail(v) ELSE v

\* s[:n]
Prefix(s, n) == SubSeq(s, 1, IF Len(s) < n THEN Len(s) ELSE n)

IsDigit(c) == Ord(c) >= 48 /\ Ord(c) <= 57

RECURSIVE DigitsValue(_)
DigitsValue(s) ==
  IF s = << >> THEN 0 ELSE 10 * DigitsValue(SubSeq(s, 1, Len(s) - 1)) + (Ord(s[Len(s)]) - 48)

RECURSIVE IntToStr(_)
IntToStr(n) == IF n < 10 THEN << Chr(48 + n) >> ELSE IntToStr(n \div 10) \o << Chr(48 + (n % 10)) >>

\* Int64 column .astype(str): the digits, or <NA> for a missing value.
year_astype_str(y) == IF y.na THEN << "<", "N", "A", ">" >> ELSE IntToStr(y.v)

\* The order of Python on str: code point by code point, a proper prefix first.
RECURSIVE StrLess(_, _)
StrLess(a, b) ==
  IF b = << >> THEN FALSE
  ELSE IF a = << >> THEN TRUE
  ELSE IF Ord(Head(a)) # Ord(Head(b)) THEN Ord(Head(a)) < Ord(Head(b))
  ELSE StrLess(Tail(a), Tail(b))

\* Python str.split(sep) for a separator of one character.
RECURSIVE split(_, _)
split(t, sep) ==
  IF \E i \in 1..Len(t) : t[i] = sep
  THEN LET m == CHOOSE i \in 1..Len(t) : t[i] = sep /\ \A j \in 1..(i - 1) : t[j] # sep
       IN  << SubSeq(t, 1, m - 1) >> \o split(SubSeq(t, m + 1, Len(t)), sep)
  ELSE << t >>

\* [a.strip() for a in parts if a.strip()]
RECURSIVE stripped_nonempty(_)
stripped_nonempty(parts) ==
  IF parts = << >> THEN << >>
  ELSE (IF strip(Head(parts)) # << >> THEN << strip(Head(parts)) >> ELSE << >>)
         \o stripped_nonempty(Tail(parts))

\* Position of the first and of the last c in t, 0 when t holds none.
find(t, c) ==
  IF \E i \in 1..Len(t) : t[i] = c
  THEN CHOOSE i \in 1..Len(t) : t[i] = c /\ \A j \in 1..(i - 1) : t[j] # c
  ELSE 0

rfind(t, c) ==
  IF \E i \in 1..Len(t) : t[i] = c
  THEN CHOOSE i \in 1..Len(t) : t[i] = c /\ \A j \in (i + 1)..Len(t) : t[j] # c
  ELSE 0

\* ------------------------------------------------------- Text/Year Normalizer
\* Series form: astype(str).str.lower().str.strip().replace('nan', np.nan)
standardize_text(v) ==
  LET t == strip(lower(astype_str(v)))
  IN  IF t = << "n", "a", "n" >> THEN NaN ELSE t

IsDigits(t) == t # << >> /\ \A i \in 1..Len(t) : IsDigit(t[i])

\* Position of the first full stop of t, 0 when it has none.
DotAt(t) ==
  IF \E i \in 1..Len(t) : t[i] = "."
  THEN CHOOSE i \in 1..Len(t) : t[i] = "." /\ \A j \in 1..(i - 1) : t[j] # "."
  ELSE 0

\* A run of digits, a full stop, a run of digits.
IsDecimal(t) ==
  /\ DotAt(t) > 1 /\ DotAt(t) < Len(t)
  /\ IsDigits(SubSeq(t, 1, DotAt(t) - 1))
  /\ IsDigits(SubSeq(t, DotAt(t) + 1, Len(t)))

\* pd.to_numeric(text, errors='coerce') of one cell: a run of digits parses as
\* that integer, digits.digits as a float (held as its whole part and its
\* fraction digits), the other texts of the input tables are coerced to NaN.
to_numeric(t) ==
  IF IsDigits(t) THEN [nan |-> FALSE, whole |-> DigitsValue(t), frac |-> << >>]
  ELSE IF IsDecimal(t)
    THEN [nan |-> FALSE, whole |-> DigitsValue(SubSeq(t, 1, DotAt(t) - 1)),
          frac |-> SubSeq(t, DotAt(t) + 1, Len(t))]
  ELSE [nan |-> TRUE, whole |-> 0, frac |-> << >>]

\* .astype('Int64') raises TypeError (cannot safely cast non-equivalent float64
\* to int64) for a float that is not a whole number.
astype_Int64_raises(x) == ~x.nan /\ \E i \in 1..Len(x.frac) : x.frac[i] # "0"

\* .astype('Int64') of a number it can cast: NaN becomes NA.
astype_Int64(x) == IF x.nan THEN NA ELSE I64(x.whole)

\* pd.to_numeric(series.astype(str).str[:4], errors='coerce').astype('Int64')
standardize_year_psyc(v) == astype_Int64(to_numeric(Prefix(astype_str(v), 4)))

\* The same expression raises for this cell of the column.
standardize_year_psyc_raises(v) == astype_Int64_raises(to_numeric(Prefix(astype_str(v), 4)))

\* Variant: the text form is returned as it is, not trimmed.
MutStandardizeYearNoStrip(v) ==
  LET t == astype_str(v)
      hits == { i \in 1..(Len(t) - 3) : IsDigits(SubSeq(t, i, i + 3)) }
  IN  IF isna(v) THEN << >>
      ELSE IF hits # { } THEN LET m == CHOOSE i \in hits : \A j \in hits : i <= j
                              IN  SubSeq(t, m, m + 3)
      ELSE t

\* standardize_year of add_to_zotero.py: re.search(r'\d{4}', str(year)) is the
\* leftmost position where four digits stand in a row.
standardize_year(v) ==
  LET t == astype_str(v)
      hits == { i \in 1..(Len(t) - 3) : IsDigits(SubSeq(t, i, i + 3)) }
  IN  IF isna(v) THEN << >>
      ELSE IF hits # { } THEN LET m == CHOOSE i \in hits : \A j \in hits : i <= j
                              IN  SubSeq(t, m, m + 3)
      ELSE strip(t)

SeqsUpTo(S, n) == UNION { [1..k -> S] : k \in 0..n }

\* Most characters of a value handed to standardize_year.
MaxYearLen == 5

\* The characters those values are written with.
YearChars == { "1", "9", "a", " " }

\* The values handed to standardize_year: a missing one and every text.
YearValues == { NaN } \cup SeqsUpTo(YearChars, MaxYearLen)

\* ------------------------------------------------------------ input tables
\* Cell values of the two spreadsheets. The DOIs hold the same identifier in
\* two spellings, one that sorts after the missing-DOI placeholder, a blank
\* cell and a cell of one space.
WosDOIs == { NaN, << "1", "/", "X" >>, << "z" >>, << " " >> }

PsycDOIs == { NaN, << " ", "1", "/", "x" >>, << " " >> }

WosYears == { I64(2020), I64(2021) }

\* A year and month, a bare year, and a day-first date whose first four
\* characters read as the number 12.5.
PsycDates ==
  { << "2", "0", "2", "0", "-", "0", "3" >>, << "2", "0", "2", "1" >>,
    << "1", "2", ".", "5", ".", "2", "0", "2", "0" >> }

WosRows ==
  [ Authors : { << "A", ",", " ", "B" >> }, Article_Title : { << "F", "o" >>, << "B", "a" >> },
    Source_Title : { << "J" >> }, Publication_Year : WosYears, DOI : WosDOIs ]

PsycRows ==
  [ Authors : { << "a", ",", " ", "b" >> }, title : { << "f", "O", " " >> },
    source : { << "J" >> }, publicationDate : PsycDates, doi : PsycDOIs ]

\* --------------------------------------------------------------- merge_data
\* wos_df['Source DB'] = 'WOS'; wos_df[wos_cols_to_keep]
wos_select(w) ==
  [ Authors |-> w.Authors, Article_Title |-> w.Article_Title, Source_Title |-> w.Source_Title,
    Publication_Year |-> w.Publication_Year, DOI |-> w.DOI, Source_DB |-> "WOS" ]

\* rename, Publication Year from the raw date, psyc_df[psyc_cols_to_keep]
psyc_select(p) ==
  [ Authors |-> p.Authors, Article_Title |-> p.title, Source_Title |-> p.source,
    Publication_Year |-> standardize_year_psyc(p.publicationDate), DOI |-> p.doi,
    Source_DB |-> "PsycInfo" ]

\* pd.concat([wos_df, psyc_df], ignore_index=True): the row label is held in index.
concat(w, p) ==
  LET all == [i \in 1..Len(w) |-> wos_select(w[i])] \o [i \in 1..Len(p) |-> psyc_select(p[i])]
  IN  [i \in 1..Len(all) |-> all[i] @@ [index |-> i - 1]]

\* Variant: the DOI column is trimmed but not lower-cased.
MutStandardizeNoLower(df) ==
  [i \in 1..Len(df) |->
     [df[i] EXCEPT !.DOI = IF isna(@) THEN NaN ELSE strip(@),
                   !.Article_Title = standardize_text(@),
                   !.Authors = standardize_text(@)]]

\* for col in ['DOI', 'Article Title', 'Authors']: lower, strip, 'nan' -> NaN, in place
standardize_columns(df) ==
  [i \in 1..Len(df) |->
     [df[i] EXCEPT !.DOI = standardize_text(@),
                   !.Article_Title = standardize_text(@),
                   !.Authors = standardize_text(@)]]

\* The placeholder '__missing_doi__'.
MissingDoi ==
  << "_", "_", "m", "i", "s", "s", "i", "n", "g", "_", "d", "o", "i", "_", "_" >>

fillna(v, fill) == IF isna(v) THEN fill ELSE v

\* Variant: the year is left out of the key.
MutSecondaryKeyNoYear(r) ==
  fillna(r.Article_Title, << >>) \o << "|" >> \o fillna(r.Authors, << >>) \o << "|" >>

\* Title + '|' + Authors + '|' + year as text
Secondary_Key(r) ==
  fillna(r.Article_Title, << >>) \o << "|" >> \o fillna(r.Authors, << >>) \o << "|" >>
    \o year_astype_str(r.Publication_Year)

add_keys(df) ==
  [i \in 1..Len(df) |->
     df[i] @@ [DOI_norm |-> fillna(df[i].DOI, MissingDoi), Secondary_Key |-> Secondary_Key(df[i])]]

\* Row a sorts strictly before row b on (DOI_norm, Secondary_Key).
RowLess(a, b) ==
  \/ StrLess(a.DOI_norm, b.DOI_norm)
  \/ a.DOI_norm = b.DOI_norm /\ StrLess(a.Secondary_Key, b.Secondary_Key)

\* Stable insertion: r goes behind every row that does not sort after it.
RECURSIVE InsertRow(_, _)
InsertRow(r, sorted) ==
  IF sorted = << >> THEN << r >>
  ELSE IF RowLess(r, Head(sorted)) THEN << r >> \o sorted
  ELSE << Head(sorted) >> \o InsertRow(r, Tail(sorted))

RECURSIVE SortFrom(_, _, _)
SortFrom(df, k, acc) == IF k > Len(df) THEN acc ELSE SortFrom(df, k + 1, InsertRow(df[k], acc))

\* combined_df.sort_values(by=['DOI_norm', 'Secondary_Key'], na_position='last')
sort_values(df) == SortFrom(df, 1, << >>)

\* df.duplicated(subset=[col], keep='first')[i]
duplicated(df, col, i) == \E j \in 1..(i - 1) : df[j][col] = df[i][col]

duplicates_doi(df, i) == duplicated(df, "DOI", i) /\ notna(df[i].DOI)

\* Variant: only earlier rows without a DOI are looked at.
MutSecondaryAmongMissingOnly(df, i) ==
  /\ isna(df[i].DOI)
  /\ \E j \in 1..(i - 1) : isna(df[j].DOI) /\ df[j].Secondary_Key = df[i].Secondary_Key

duplicates_secondary(df, i) == duplicated(df, "Secondary_Key", i) /\ isna(df[i].DOI)

is_duplicate(df, i) == duplicates_doi(df, i) \/ duplicates_secondary(df, i)

RECURSIVE SelectRows(_, _, _)
SelectRows(df, keep, k) ==
  IF k > Len(df) THEN << >>
  ELSE (IF keep[k] THEN << df[k] >> ELSE << >>) \o SelectRows(df, keep, k + 1)

\* combined_df[~is_duplicate]
unique_rows(df) == SelectRows(df, [i \in 1..Len(df) |-> ~is_duplicate(df, i)], 1)

\* Variant: only the rows flagged by DOI are written out as duplicates.
MutDuplicateRowsDoiOnly(df) == SelectRows(df, [i \in 1..Len(df) |-> duplicates_doi(df, i)], 1)

\* combined_df[is_duplicate]
duplicate_rows(df) == SelectRows(df, [i \in 1..Len(df) |-> is_duplicate(df, i)], 1)

\* df.drop(columns=['DOI_norm', 'Secondary_Key'])
drop_keys(df) ==
  [i \in 1..Len(df) |-> [f \in DOMAIN df[i] \ { "DOI_norm", "Secondary_Key" } |-> df[i][f]]]

\* Variant: the row labels left by the filter are kept.
MutNoResetIndex(df) == df

\* df.reset_index(drop=True)
reset_index(df) == [i \in 1..Len(df) |-> [df[i] EXCEPT !.index = i - 1]]

\* deduplicated_df['paper_id'] = deduplicated_df.index + 1
add_paper_id(df) == [i \in 1..Len(df) |-> df[i] @@ [paper_id |-> df[i].index + 1]]

\* to_csv(index=False) then read_csv: the row label is not written, a missing or
\* empty text cell is written as an empty field, and an empty field reads as NaN.
csv_cell(v) == IF v = << >> THEN NaN ELSE v

csv_round_trip(df) ==
  [i \in 1..Len(df) |->
     [f \in DOMAIN df[i] \ { "index" } |->
        IF f \in { "Authors", "Article_Title", "Source_Title", "DOI" }
        THEN csv_cell(df[i][f]) ELSE df[i][f]]]

\* -------------------------------------------------------------- verify_merge
\* set(standardize_text(df[col]).dropna())
doi_set(df, col) ==
  { standardize_text(df[i][col]) : i \in 1..Len(df) } \ { NaN }

\* wos_dois.intersection(psyc_dois)
overlapping_dois(w, p) == doi_set(w, "DOI") \cap doi_set(p, "doi")

\* value_counts() entry of one DOI in the standardized DOI column of merged_df
doi_count(merged, d) ==
  Cardinality({ i \in 1..Len(merged) : standardize_text(merged[i].DOI) = d })

\* doi_counts_in_merged[doi_counts_in_merged > 1], as {DOI, count} pairs
duplicated_overlapping_dois(w, p, merged) ==
  { << d, doi_count(merged, d) >> : d \in { x \in overlapping_dois(w, p) : doi_count(merged, x) > 1 } }

\* ids.is_unique and ids.equals(pd.Series(range(1, n + 1)))
ids_unique(merged) ==
  \A i, j \in 1..Len(merged) : i # j => merged[i].paper_id # merged[j].paper_id

ids_sequential(merged) == \A i \in 1..Len(merged) : merged[i].paper_id = i

PassFail(b) == IF b THEN "PASS" ELSE "FAIL"

\* ------------------------------------------------------------ add_to_zotero
\* Most rows the two spreadsheets hold together when the importer runs.
MaxImportRows == 2

\* The author cells hold a Last, First entry, a First Last entry and an empty one.
ImportWosAuthors == << "A", ",", " ", "B", ";", " ", "C", " ", "D", ";" >>

ImportPsycAuthors == << "a", ",", " ", "b", ";", " ", "c", " ", "d", ";" >>

ImportWosRows ==
  [ Authors : { ImportWosAuthors }, Article_Title : { << "F", "o" >> },
    Source_Title : { << "J" >> }, Publication_Year : { I64(2020) },
    DOI : { NaN, << "1", "/", "X" >> } ]

\* One author cell of the second source is typed as a number.
ImportPsycRows ==
  [ Authors : { ImportPsycAuthors, NumCell(<< "7" >>) }, title : { << "f", "O", " " >> },
    source : { << "J" >> }, publicationDate : { << "2", "0", "2", "1" >> },
    doi : { NaN, << " ", "1", "/", "x" >> } ]

\* The file merged_papers.csv that merge_data.py writes for these two sources.
merged_papers(w, p) ==
  csv_round_trip(add_paper_id(reset_index(drop_keys(
    unique_rows(sort_values(add_keys(standardize_columns(concat(w, p)))))))))

None == "None"

\* Item keys the library hands out.
ItemKeys == { "K1", "K2" }

\* The target collection, or None when it could be neither found nor created.
CollectionIds == { None, "COLL" }

\* pd.to_numeric(series, errors='coerce').astype('Int64') on a column of year numbers
standardize_year_wos(y) == IF y.na THEN NA ELSE I64(y.v)

lookup_key(title, authors, year) ==
  fillna(standardize_text(title), << >>) \o << "|" >> \o fillna(standardize_text(authors), << >>)
    \o << "|" >> \o year_astype_str(year)

\* wos_orig_df with its DOI_std and Secondary_Key columns
wos_orig_lookup(w) ==
  [i \in 1..Len(w) |->
     [ DOI_std |-> standardize_text(w[i].DOI),
       Secondary_Key |-> lookup_key(w[i].Article_Title, w[i].Authors,
                                    standardize_year_wos(w[i].Publication_Year)),
       Authors |-> w[i].Authors ]]

\* psyc_orig_df with its DOI_std and Secondary_Key columns
psyc_orig_lookup(p) ==
  [i \in 1..Len(p) |->
     [ DOI_std |-> standardize_text(p[i].doi),
       Secondary_Key |-> lookup_key(p[i].title, p[i].Authors,
                                    standardize_year_psyc(p[i].publicationDate)),
       Authors |-> p[i].Authors ]]

\* read_csv gives the year column as floats as soon as one year is missing.
year_is_float(df) == \E i \in 1..Len(df) : df[i].Publication_Year.na

\* f"{year_std or ''}" of a cell of that column
year_fstring(y, float_col) ==
  IF y.na THEN << "n", "a", "n" >>
  ELSE IF y.v = 0 THEN << >>
  ELSE IF float_col THEN IntToStr(y.v) \o << ".", "0" >>
  ELSE IntToStr(y.v)

FirstWith(tbl, col, v) == tbl[CHOOSE i \in 1..Len(tbl) :
                               tbl[i][col] = v /\ \A j \in 1..(i - 1) : tbl[j][col] # v]

Has(tbl, col, v) == \E i \in 1..Len(tbl) : tbl[i][col] = v

NotFound == [row |-> None, source_db |-> None]

\* find_original_record: by DOI in either table, else by the secondary key.
find_original_record(doi_std, title_std, author_std, year_std, float_col, wos, psyc) ==
  LET secondary_key == title_std \o << "|" >> \o author_std \o << "|" >>
                         \o year_fstring(year_std, float_col)
  IN  IF notna(doi_std) /\ Has(wos, "DOI_std", doi_std)
        THEN [row |-> FirstWith(wos, "DOI_std", doi_std), source_db |-> "WOS"]
      ELSE IF notna(doi_std) /\ Has(psyc, "DOI_std", doi_std)
        THEN [row |-> FirstWith(psyc, "DOI_std", doi_std), source_db |-> "PsycInfo"]
      ELSE IF notna(title_std) /\ notna(author_std) /\ ~year_std.na
                /\ Has(wos, "Secondary_Key", secondary_key)
        THEN [row |-> FirstWith(wos, "Secondary_Key", secondary_key), source_db |-> "WOS"]
      ELSE IF notna(title_std) /\ notna(author_std) /\ ~year_std.na
                /\ Has(psyc, "Secondary_Key", secondary_key)
        THEN [row |-> FirstWith(psyc, "Secondary_Key", secondary_key), source_db |-> "PsycInfo"]
      ELSE NotFound

\* create_template_from_original: the author cell is split as text only in the
\* PsycInfo branch (no source is tagged 'WebOfScience'); splitting a cell that is
\* not text raises.
TemplateRaises(original_row, source_db) ==
  /\ notna(original_row.Authors)
  /\ source_db = "PsycInfo"
  /\ is_number(original_row.Authors)

creator(last_name, first_name) ==
  [creatorType |-> "author", lastName |-> last_name, firstName |-> first_name]

\* author.split(',', 1): last name before the first comma, first name after it.
comma_creator(author) ==
  creator(strip(SubSeq(author, 1, find(author, ",") - 1)),
          strip(SubSeq(author, find(author, ",") + 1, Len(author))))

\* author.rsplit(' ', 1): first name before the last space, last name after it.
space_creator(author) ==
  creator(strip(SubSeq(author, rfind(author, " ") + 1, Len(author))),
          strip(SubSeq(author, 1, rfind(author, " ") - 1)))

\* The branch of lines 148-165 over the entries of authors_text.split(';').
RECURSIVE creators_wos_format(_)
creators_wos_format(authors) ==
  IF authors = << >> THEN << >>
  ELSE LET author == strip(Head(authors))
       IN  (IF find(author, ",") > 0 THEN << comma_creator(author) >>
            ELSE IF author # << >> THEN << creator(author, << >>) >>
            ELSE << >>) \o creators_wos_format(Tail(authors))

\* The branch of lines 166-190 over the entries of authors_text.split(';').
RECURSIVE creators_psyc_format(_)
creators_psyc_format(authors) ==
  IF authors = << >> THEN << >>
  ELSE LET author == strip(Head(authors))
       IN  (IF find(author, ",") > 0 THEN << comma_creator(author) >>
            ELSE IF find(author, " ") > 0 THEN << space_creator(author) >>
            ELSE IF author # << >> THEN << creator(author, << >>) >>
            ELSE << >>) \o creators_psyc_format(Tail(authors))

\* The tag the first branch of line 148 tests.
wos_branch_tag == "WebOfScience"

\* template['creators'] (add_to_zotero.py 138-190)
creators_from_original(original_row, source_db) ==
  IF isna(original_row.Authors) THEN << >>
  ELSE IF source_db = wos_branch_tag
    THEN creators_wos_format(split(original_row.Authors, ";"))
  ELSE IF source_db = "PsycInfo"
    THEN creators_psyc_format(split(original_row.Authors, ";"))
  ELSE << >>

create_template_from_original(original_row, source_db, collection_id) ==
  [ itemType |-> "journalArticle", source |-> source_db,
    creators |-> creators_from_original(original_row, source_db),
    collections |-> IF collection_id # None THEN << collection_id >> ELSE << >> ]

\* create_template_from_crossref, as far as the import loop reads it
create_template_from_crossref(collection_id) ==
  [ itemType |-> "journalArticle", source |-> "CrossRef", creators |-> << >>,
    collections |-> IF collection_id # None THEN << collection_id >> ELSE << >> ]

\* What cr.works(ids=doi) can do: a record under 'message', a record whose title
\* list is empty (templating it raises inside the try), no message, an exception.
CrossRefResults == { "message", "message_without_title", "empty", "raise" }

\* What zot.create_items can do: a key under 'successful', a 412 under 'failed',
\* another failure, neither, an exception.
CreateResults ==
  { [kind |-> "successful", key |-> k] : k \in ItemKeys }
    \cup { [kind |-> x, key |-> None] : x \in { "failed_412", "failed", "unexpected", "raise" } }

\* What zot.add_items_by_identifier can do.
LookupResults ==
  { [kind |-> x, key |-> k] : x \in { "success", "unchanged" }, k \in ItemKeys }
    \cup { [kind |-> x, key |-> None] : x \in { "failed", "unexpected", "raise" } }

Call(op, arg, result) == [op |-> op, arg |-> arg, result |-> result, key |-> None]

\* A call that returned an item key.
KeyCall(op, arg, result, key) == [op |-> op, arg |-> arg, result |-> result, key |-> key]

\* add_existing_item_to_collection: every sequence of calls one invocation can make.
add_existing_item_to_collection(item_key, collection_id) ==
  LET invoked == Call("add_existing_item_to_collection", item_key, collection_id)
  IN  IF collection_id = None \/ item_key = None
      THEN { << invoked >> }
      ELSE { << invoked, Call("item", item_key, "raise") >>,
             << invoked, Call("item", item_key, "no_data") >>,
             << invoked, Call("item", item_key, "member") >>,
             << invoked, Call("item", item_key, "not_member"),
                Call("update_item", item_key, "updated") >>,
             << invoked, Call("item", item_key, "not_member"),
                Call("update_item", item_key, "raise") >> }

\* --------------------------------------------------------------------- state
VARIABLES
  pc,                     \* the next step of the script that is running
  wos_xls, psyc_xls,      \* WebOfScience.xls and PsycInfo.xls
  combined_df,            \* merge_data: the combined table, rewritten by each step
  deduplicated_df,        \* merge_data: the canonical rows
  duplicates_df,          \* merge_data: the rows removed as duplicates
  merged_papers_csv,      \* the file merged_papers.csv, as read_csv returns it
  duplicates_removed_csv, \* the file duplicates_removed.csv, as read_csv returns it
  check2, check3, check5, \* verify_merge: the verdict each check printed
  dedup_df,               \* add_to_zotero: the canonical records read from merged_papers.csv
  collection_id,          \* add_to_zotero: the target collection, or None
  row_i,                  \* add_to_zotero: position in dedup_df of the record in hand
  item_key, item_created_now, zotero_template, template_source,
                          \* add_to_zotero: the locals of one loop iteration
  calls,                  \* the collaborator calls made for the record in hand, in order
  processed_count, added_count, failed_count,
  outcomes,               \* one entry per record whose iteration has completed
  year_arg, year_ret,     \* standardize_year: the value it is handed and what it returned
  ris_row, ris_entry,     \* format_ris_entry: the row it is handed and the lines it returned
  library,                \* the library's copy of one item: its collections and its version
  item_data,              \* add_existing_item_to_collection: the item as it was fetched
  requests,               \* the requests sent to the library for that item, in order
  errors_logged,          \* how many ERROR lines add_existing_item_to_collection has logged
  call_count,             \* how many times add_existing_item_to_collection was called
  other_changes           \* how many times another client has changed the item

merge_vars ==
  << wos_xls, psyc_xls, combined_df, deduplicated_df, duplicates_df,
     merged_papers_csv, duplicates_removed_csv, check2, check3, check5 >>

import_vars ==
  << dedup_df, collection_id, row_i, item_key, item_created_now, zotero_template,
     template_source, calls, processed_count, added_count, failed_count, outcomes >>

coll_vars == << library, item_data, requests, errors_logged, call_count, other_changes >>

fn_vars == << year_arg, year_ret, ris_row, ris_entry, coll_vars >>

vars == << pc, merge_vars, import_vars, fn_vars >>

NoReport == [verdict |-> "none", reported |-> { }]

MergeInit ==
  /\ wos_xls \in SeqsUpTo(WosRows, MaxRows)
  /\ psyc_xls \in SeqsUpTo(PsycRows, MaxRows - Len(wos_xls))
  /\ combined_df = << >>
  /\ deduplicated_df = << >>
  /\ duplicates_df = << >>
  /\ merged_papers_csv = << >>
  /\ duplicates_removed_csv = << >>
  /\ check2 = NoReport
  /\ check3 = "none"
  /\ check5 = "none"

NoTemplate == [itemType |-> "none", source |-> None, creators |-> << >>, collections |-> << >>]

\* The importer before its loop starts (add_to_zotero.py 365-367).
ImportIdle ==
  /\ row_i = 1
  /\ item_key = None
  /\ item_created_now = FALSE
  /\ zotero_template = NoTemplate
  /\ template_source = None
  /\ calls = << >>
  /\ processed_count = 0
  /\ added_count = 0
  /\ failed_count = 0
  /\ outcomes = << >>

\* add_existing_item_to_collection has not been called.
CollIdle ==
  /\ library = None
  /\ item_data = None
  /\ requests = << >>
  /\ errors_logged = 0
  /\ call_count = 0
  /\ other_changes = 0

\* No function call is in hand.
FnIdle ==
  /\ year_arg = None
  /\ year_ret = None
  /\ ris_row = None
  /\ ris_entry = None
  /\ CollIdle

Init ==
  /\ pc = "combine"
  /\ MergeInit
  /\ dedup_df = << >>
  /\ collection_id = None
  /\ ImportIdle
  /\ FnIdle

\* merge_data.py 20-52: tag, rename, select and concatenate the two sources. The
\* year extraction of lines 35-38 is in no try: when it raises the script ends.
Combine ==
  /\ pc = "combine"
  /\ IF \E i \in 1..Len(psyc_xls) : standardize_year_psyc_raises(psyc_xls[i].publicationDate)
     THEN pc' = "crashed" /\ UNCHANGED combined_df
     ELSE pc' = "standardize" /\ combined_df' = concat(wos_xls, psyc_xls)
  /\ UNCHANGED << wos_xls, psyc_xls, deduplicated_df, duplicates_df,
                  merged_papers_csv, duplicates_removed_csv, check2, check3, check5, import_vars, fn_vars >>

\* merge_data.py 57-61
Standardize ==
  /\ pc = "standardize"
  /\ combined_df' = standardize_columns(combined_df)
  /\ pc' = "keys"
  /\ UNCHANGED << wos_xls, psyc_xls, deduplicated_df, duplicates_df,
                  merged_papers_csv, duplicates_removed_csv, check2, check3, check5, import_vars, fn_vars >>

\* merge_data.py 74-81
ComputeKeys ==
  /\ pc = "keys"
  /\ combined_df' = add_keys(combined_df)
  /\ pc' = "sort"
  /\ UNCHANGED << wos_xls, psyc_xls, deduplicated_df, duplicates_df,
                  merged_papers_csv, duplicates_removed_csv, check2, check3, check5, import_vars, fn_vars >>

\* merge_data.py 87
SortValues ==
  /\ pc = "sort"
  /\ combined_df' = sort_values(combined_df)
  /\ pc' = "partition"
  /\ UNCHANGED << wos_xls, psyc_xls, deduplicated_df, duplicates_df,
                  merged_papers_csv, duplicates_removed_csv, check2, check3, check5, import_vars, fn_vars >>

\* merge_data.py 90-104
Partition ==
  /\ pc = "partition"
  /\ deduplicated_df' = unique_rows(combined_df)
  /\ duplicates_df' = duplicate_rows(combined_df)
  /\ pc' = "save"
  /\ UNCHANGED << wos_xls, psyc_xls, combined_df,
                  merged_papers_csv, duplicates_removed_csv, check2, check3, check5, import_vars, fn_vars >>

\* merge_data.py 114-147: drop the key columns, renumber, assign paper_id, write both files.
Save ==
  /\ pc = "save"
  /\ deduplicated_df' = add_paper_id(reset_index(drop_keys(deduplicated_df)))
  /\ duplicates_df' = drop_keys(duplicates_df)
  /\ merged_papers_csv' = csv_round_trip(deduplicated_df')
  /\ duplicates_removed_csv' = csv_round_trip(duplicates_df')
  /\ pc' = "check2"
  /\ UNCHANGED << wos_xls, psyc_xls, combined_df, check2, check3, check5, import_vars, fn_vars >>

\* verify_merge.py 48-76
Check2 ==
  /\ pc = "check2"
  /\ LET bad == duplicated_overlapping_dois(wos_xls, psyc_xls, merged_papers_csv)
     IN  check2' = [verdict |-> PassFail(bad = { }), reported |-> bad]
  /\ pc' = "check3"
  /\ UNCHANGED << wos_xls, psyc_xls, combined_df, deduplicated_df, duplicates_df,
                  merged_papers_csv, duplicates_removed_csv, check3, check5, import_vars, fn_vars >>

\* verify_merge.py 78-91
Check3 ==
  /\ pc = "check3"
  /\ check3' = PassFail(ids_unique(merged_papers_csv) /\ ids_sequential(merged_papers_csv))
  /\ pc' = "check5"
  /\ UNCHANGED << wos_xls, psyc_xls, combined_df, deduplicated_df, duplicates_df,
                  merged_papers_csv, duplicates_removed_csv, check2, check5, import_vars, fn_vars >>

\* verify_merge.py 107-123
Check5 ==
  /\ pc = "check5"
  /\ check5' = PassFail(Len(wos_xls) + Len(psyc_xls)
                          = Len(merged_papers_csv) + Len(duplicates_removed_csv))
  /\ pc' = "verified"
  /\ UNCHANGED << wos_xls, psyc_xls, combined_df, deduplicated_df, duplicates_df,
                  merged_papers_csv, duplicates_removed_csv, check2, check3, import_vars, fn_vars >>

Next ==
  \/ Combine
  \/ Standardize
  \/ ComputeKeys
  \/ SortValues
  \/ Partition
  \/ Save
  \/ Check2
  \/ Check3
  \/ Check5

Spec == Init /\ [][Next]_vars

\* ------------------------------------------------------ add_to_zotero: the loop
\* The importer at its loop, with merged_papers.csv as merge_data.py wrote it for
\* the two spreadsheets (add_to_zotero.py 325-367).
ImportInit ==
  /\ pc = "loop"
  /\ wos_xls \in SeqsUpTo(ImportWosRows, MaxImportRows)
  /\ psyc_xls \in SeqsUpTo(ImportPsycRows, MaxImportRows - Len(wos_xls))
  /\ merged_papers_csv = merged_papers(wos_xls, psyc_xls)
  /\ dedup_df = merged_papers_csv
  /\ collection_id \in CollectionIds
  /\ combined_df = << >>
  /\ deduplicated_df = << >>
  /\ duplicates_df = << >>
  /\ duplicates_removed_csv = << >>
  /\ check2 = NoReport
  /\ check3 = "none"
  /\ check5 = "none"
  /\ ImportIdle
  /\ FnIdle

\* Variant: a record without a DOI is treated as having one.
MutDoiNotTested == TRUE

\* pd.notna(doi_std) and doi_std, for the record in hand
has_doi == notna(dedup_df[row_i].DOI) /\ dedup_df[row_i].DOI # << >>

\* Variant: the lookup does not test item_key.
MutLookupRegardlessOfKey == has_doi

\* if item_key is None and pd.notna(doi_std) and doi_std (add_to_zotero.py 431)
strategy2_applies == item_key = None /\ has_doi

\* Variant: the manual mapping also runs for an item that was found, not created.
MutManualRegardlessOfKey == item_key = None \/ ~item_created_now

\* if item_key is None (add_to_zotero.py 461)
strategy3_applies == item_key = None

\* add_to_zotero.py 369-381: the next record is taken and the locals are reset.
BeginRecord ==
  /\ pc = "loop"
  /\ row_i <= Len(dedup_df)
  /\ processed_count' = processed_count + 1
  /\ item_key' = None
  /\ item_created_now' = FALSE
  /\ zotero_template' = NoTemplate
  /\ template_source' = None
  /\ calls' = << >>
  /\ pc' = "strategy1"
  /\ UNCHANGED << fn_vars, merge_vars, dedup_df, collection_id, row_i, added_count, failed_count, outcomes >>

\* add_to_zotero.py 383-401: Strategy 1, the CrossRef query, only with a DOI.
Strategy1Query ==
  /\ pc = "strategy1"
  /\ IF has_doi
     THEN \E r \in CrossRefResults :
            /\ calls' = Append(calls, Call("cr.works", "doi", r))
            /\ IF r = "message"
               THEN /\ zotero_template' = create_template_from_crossref(collection_id)
                    /\ template_source' = "CrossRef"
               ELSE UNCHANGED << zotero_template, template_source >>
     ELSE UNCHANGED << calls, zotero_template, template_source >>
  /\ pc' = "create"
  /\ UNCHANGED << fn_vars, merge_vars, dedup_df, collection_id, row_i, item_key, item_created_now,
                  processed_count, added_count, failed_count, outcomes >>

\* add_to_zotero.py 403-428: the item is created from the CrossRef template.
Strategy1Create ==
  /\ pc = "create"
  /\ IF zotero_template # NoTemplate
     THEN \E resp \in CreateResults :
            /\ calls' = Append(calls, KeyCall("create_items", template_source, resp.kind, resp.key))
            /\ IF resp.kind = "successful"
               THEN item_key' = resp.key /\ item_created_now' = TRUE
               ELSE UNCHANGED << item_key, item_created_now >>
            /\ zotero_template' = IF resp.kind = "raise" THEN zotero_template ELSE NoTemplate
     ELSE UNCHANGED << calls, item_key, item_created_now, zotero_template >>
  /\ pc' = "strategy2"
  /\ UNCHANGED << fn_vars, merge_vars, dedup_df, collection_id, row_i, template_source,
                  processed_count, added_count, failed_count, outcomes >>

\* add_to_zotero.py 430-458: Strategy 2, the identifier lookup, with the
\* collection check of a created or found item.
Strategy2 ==
  /\ pc = "strategy2"
  /\ IF strategy2_applies
     THEN \E resp \in LookupResults :
            LET lookup == KeyCall("add_items_by_identifier", "doi", resp.kind, resp.key)
            IN  IF resp.kind \in { "success", "unchanged" }
                THEN /\ item_key' = resp.key
                     /\ item_created_now' = (resp.kind = "success")
                     /\ \E more \in add_existing_item_to_collection(resp.key, collection_id) :
                          calls' = Append(calls, lookup) \o more
                ELSE /\ calls' = Append(calls, lookup)
                     /\ UNCHANGED << item_key, item_created_now >>
     ELSE UNCHANGED << calls, item_key, item_created_now >>
  /\ pc' = "strategy3"
  /\ UNCHANGED << fn_vars, merge_vars, dedup_df, collection_id, row_i, zotero_template, template_source,
                  processed_count, added_count, failed_count, outcomes >>

\* The raw record of the record in hand (add_to_zotero.py 463).
located ==
  find_original_record(dedup_df[row_i].DOI, dedup_df[row_i].Article_Title,
                       dedup_df[row_i].Authors, dedup_df[row_i].Publication_Year,
                       year_is_float(dedup_df),
                       wos_orig_lookup(wos_xls), psyc_orig_lookup(psyc_xls))

\* add_to_zotero.py 460-497: Strategy 3, creation from the raw record. Locating
\* and templating run outside any try: an exception there ends the script.
Strategy3 ==
  /\ pc = "strategy3"
  /\ IF ~strategy3_applies
     THEN /\ pc' = "counts"
          /\ UNCHANGED << calls, item_key, item_created_now, zotero_template, template_source >>
     ELSE IF located.source_db = None
     THEN /\ calls' = Append(calls, Call("find_original_record", "row", None))
          /\ pc' = "counts"
          /\ UNCHANGED << item_key, item_created_now, zotero_template, template_source >>
     ELSE IF TemplateRaises(located.row, located.source_db)
     THEN /\ calls' = calls \o << Call("find_original_record", "row", located.source_db),
                                  Call("create_template_from_original", located.source_db, "raise") >>
          /\ pc' = "crashed"
          /\ UNCHANGED << item_key, item_created_now, zotero_template, template_source >>
     ELSE \E resp \in CreateResults :
            /\ zotero_template' =
                 create_template_from_original(located.row, located.source_db, collection_id)
            /\ template_source' = "Original XLS"
            /\ calls' = calls \o << Call("find_original_record", "row", located.source_db),
                                    KeyCall("create_items", "Original XLS", resp.kind, resp.key) >>
            /\ IF resp.kind = "successful"
               THEN item_key' = resp.key /\ item_created_now' = TRUE
               ELSE UNCHANGED << item_key, item_created_now >>
            /\ pc' = "counts"
  /\ UNCHANGED << fn_vars, merge_vars, dedup_df, collection_id, row_i,
                  processed_count, added_count, failed_count, outcomes >>

\* Variant: only an item created in this run counts as added.
MutCountCreatedOnly == item_created_now

\* if item_key (add_to_zotero.py 500)
key_obtained == item_key # None

\* add_to_zotero.py 499-507: the record is counted and the loop moves on.
UpdateCounts ==
  /\ pc = "counts"
  /\ IF key_obtained
     THEN added_count' = added_count + 1 /\ UNCHANGED failed_count
     ELSE failed_count' = failed_count + 1 /\ UNCHANGED added_count
  /\ outcomes' = Append(outcomes,
                        [ paper_id |-> dedup_df[row_i].paper_id,
                          result |-> IF key_obtained THEN "succeeded" ELSE "failed",
                          item_key |-> item_key,
                          item_created_now |-> item_created_now,
                          calls |-> calls ])
  /\ row_i' = row_i + 1
  /\ pc' = "loop"
  /\ UNCHANGED << fn_vars, merge_vars, dedup_df, collection_id, item_key, item_created_now,
                  zotero_template, template_source, calls, processed_count >>

\* add_to_zotero.py 509-514: the final summary.
Summary ==
  /\ pc = "loop"
  /\ row_i > Len(dedup_df)
  /\ pc' = "finished"
  /\ UNCHANGED << merge_vars, import_vars, fn_vars >>

ImportNext ==
  \/ BeginRecord
  \/ Strategy1Query
  \/ Strategy1Create
  \/ Strategy2
  \/ Strategy3
  \/ UpdateCounts
  \/ Summary

ImportSpec == ImportInit /\ [][ImportNext]_vars

\* -------------------------------------------------------------- generate_ris
\* A Publication Year cell as read_csv hands it to the formatter: NaN, an int64,
\* a float64 (whole part and fraction digits) or, in a column of mixed cells, text.
YearNaN == [kind |-> "nan", whole |-> 0, frac |-> << >>, text |-> << >>]

YearInt(n) == [kind |-> "int", whole |-> n, frac |-> << >>, text |-> << >>]

YearFloat(n, f) == [kind |-> "float", whole |-> n, frac |-> f, text |-> << >>]

YearStr(t) == [kind |-> "str", whole |-> 0, frac |-> << >>, text |-> t]

\* int(year) raises ValueError: text that is not an integer literal.
int_raises(y) == y.kind = "str" /\ ~IsDigits(strip(y.text))

\* int(year): a float is truncated, text is parsed.
int_of(y) == IF y.kind = "str" THEN DigitsValue(strip(y.text)) ELSE y.whole

RisLine(tag, value) == tag \o << " ", " ", "-", " " >> \o value

\* Variant: the year is written for every cell that is not missing, as its text.
MutPyLineUnconverted(y) ==
  IF y.kind = "nan" THEN << >>
  ELSE << RisLine(<< "P", "Y" >>,
                  IF y.kind = "str" THEN y.text
                  ELSE IntToStr(y.whole) \o (IF y.kind = "float" THEN << "." >> \o y.frac ELSE << >>)) >>

\* generate_ris.py 29-37: the PY line, or none.
py_lines(y) ==
  IF y.kind = "nan" \/ int_raises(y) THEN << >>
  ELSE << RisLine(<< "P", "Y" >>, IntToStr(int_of(y))) >>

\* format_ris_entry(row): the lines that are joined with a line feed.
format_ris_entry(r) ==
  << RisLine(<< "T", "Y" >>, << "J", "O", "U", "R" >>) >>
    \o (IF isna(r.Authors) THEN << >>
        ELSE LET author_list == stripped_nonempty(split(r.Authors, ";"))
             IN  [i \in 1..Len(author_list) |-> RisLine(<< "A", "U" >>, author_list[i])])
    \o (IF notna(r.Article_Title) /\ r.Article_Title # << >>
        THEN << RisLine(<< "T", "I" >>, r.Article_Title) >> ELSE << >>)
    \o (IF notna(r.Source_Title) /\ r.Source_Title # << >>
        THEN << RisLine(<< "T", "2" >>, r.Source_Title) >> ELSE << >>)
    \o py_lines(r.Publication_Year)
    \o (IF notna(r.DOI) /\ r.DOI # << >> THEN << RisLine(<< "D", "O" >>, r.DOI) >> ELSE << >>)
    \o << RisLine(<< "E", "R" >>, << >>) >>

\* The Publication Year cells: missing, 2021, 2021.0, 2021.5, and the texts
\* 2021 and n.d. of a column that read_csv left as text.
RisYears ==
  { YearNaN, YearInt(2021), YearFloat(2021, << "0" >>), YearFloat(2021, << "5" >>),
    YearStr(<< "2", "0", "2", "1" >>), YearStr(<< "n", ".", "d", "." >>) }

\* The rows of merged_papers.csv handed to format_ris_entry.
RisRows ==
  [ Authors : { NaN, << "a", ",", " ", "b" >>, << "a", ";", " ", ";", "b", " " >> },
    Article_Title : { NaN, << "f", "o" >> },
    Source_Title : { NaN, << "J" >> },
    Publication_Year : RisYears,
    DOI : { NaN, << "1", "/", "x" >> } ]

\* ------------------------------------------------------------ pure functions
\* Neither script has read a file.
MergeIdle ==
  /\ wos_xls = << >>
  /\ psyc_xls = << >>
  /\ combined_df = << >>
  /\ deduplicated_df = << >>
  /\ duplicates_df = << >>
  /\ merged_papers_csv = << >>
  /\ duplicates_removed_csv = << >>
  /\ check2 = NoReport
  /\ check3 = "none"
  /\ check5 = "none"
  /\ dedup_df = << >>
  /\ collection_id = None
  /\ ImportIdle

YearInit ==
  /\ pc = "standardize_year"
  /\ year_arg \in YearValues
  /\ year_ret = None
  /\ ris_row = None
  /\ ris_entry = None
  /\ CollIdle
  /\ MergeIdle

\* add_to_zotero.py 39-46: one call of standardize_year.
StandardizeYear ==
  /\ pc = "standardize_year"
  /\ year_ret' = standardize_year(year_arg)
  /\ pc' = "year_returned"
  /\ UNCHANGED << year_arg, ris_row, ris_entry, coll_vars, merge_vars, import_vars >>

YearNext == StandardizeYear

YearSpec == YearInit /\ [][YearNext]_vars

RisInit ==
  /\ pc = "format_ris_entry"
  /\ ris_row \in RisRows
  /\ ris_entry = None
  /\ year_arg = None
  /\ year_ret = None
  /\ CollIdle
  /\ MergeIdle

\* generate_ris.py 7-47: one call of format_ris_entry.
FormatRisEntry ==
  /\ pc = "format_ris_entry"
  /\ ris_entry' = format_ris_entry(ris_row)
  /\ pc' = "ris_returned"
  /\ UNCHANGED << ris_row, year_arg, year_ret, coll_vars, merge_vars, import_vars >>

RisNext == FormatRisEntry

RisSpec == RisInit /\ [][RisNext]_vars

\* ------------------------------------- add_existing_item_to_collection, stepwise
\* Most calls of add_existing_item_to_collection for the item.
MaxCollectionCalls == 2

\* Most changes another client of the library makes to the item meanwhile.
MaxOtherChanges == 2

\* The collections of the library: the target collection and another one.
Collections == { "COLL", "OTHER" }

\* The importer holds an item key (or none) and the target collection (or none)
\* and calls add_existing_item_to_collection; the library holds the item in some
\* collections at version 1.
CollectionInit ==
  /\ pc = "call"
  /\ item_key \in ItemKeys \cup { None }
  /\ collection_id \in CollectionIds
  /\ library \in [collections : SUBSET Collections, version : { 1 }]
  /\ item_data = None
  /\ requests = << >>
  /\ errors_logged = 0
  /\ call_count = 0
  /\ other_changes = 0
  /\ wos_xls = << >> /\ psyc_xls = << >>
  /\ combined_df = << >> /\ deduplicated_df = << >> /\ duplicates_df = << >>
  /\ merged_papers_csv = << >> /\ duplicates_removed_csv = << >>
  /\ check2 = NoReport /\ check3 = "none" /\ check5 = "none"
  /\ dedup_df = << >>
  /\ row_i = 1
  /\ item_created_now = FALSE
  /\ zotero_template = NoTemplate
  /\ template_source = None
  /\ calls = << >>
  /\ processed_count = 0 /\ added_count = 0 /\ failed_count = 0
  /\ outcomes = << >>
  /\ year_arg = None /\ year_ret = None /\ ris_row = None /\ ris_entry = None

\* A request to the library, with what it carried and how it ended.
Request(op, collections, version, result) ==
  [op |-> op, collections |-> collections, version |-> version, result |-> result]

\* The try of lines 235-252 holds both the fetch and the update.
in_try(op) == op \in { "item", "update_item" }

\* Where control goes when a request raises: the except of line 253 logs it and
\* the function returns, an exception outside a try reaches the caller.
after_raise(op) == IF in_try(op) THEN "call" ELSE "propagated"

\* add_to_zotero.py 229-239: the guard and the fetch of the item.
FetchItem ==
  /\ pc = "call"
  /\ call_count < MaxCollectionCalls
  /\ call_count' = call_count + 1
  /\ IF collection_id = None \/ item_key = None
     THEN /\ pc' = "call"
          /\ UNCHANGED << item_data, requests, errors_logged >>
     ELSE \E result \in { "raise", "no_data", "data" } :
            /\ requests' = Append(requests, Request("item", library.collections, library.version, result))
            /\ item_data' = IF result = "data" THEN library ELSE None
            /\ errors_logged' = IF result = "data" THEN errors_logged ELSE errors_logged + 1
            /\ pc' = IF result = "data" THEN "fetched"
                     ELSE IF result = "raise" THEN after_raise("item") ELSE "call"
  /\ UNCHANGED << library, other_changes, item_key, collection_id, merge_vars, dedup_df, row_i,
                  item_created_now, zotero_template, template_source, calls, processed_count,
                  added_count, failed_count, outcomes, year_arg, year_ret, ris_row, ris_entry >>

\* Variant: the update carries the version the library holds when it arrives.
MutVersionNotFromFetch == library.version

\* item_version = item_data['data']['version'] (add_to_zotero.py 247)
item_version == item_data.version

\* add_to_zotero.py 241-259: the membership test and the update with the version
\* that was fetched. The library takes the update only at that version and
\* answers a stale one with an error, which the client raises.
UpdateItem ==
  /\ pc = "fetched"
  /\ IF collection_id \in item_data.collections
     THEN /\ pc' = "call"
          /\ UNCHANGED << library, requests, errors_logged >>
     ELSE LET updated_collections == item_data.collections \cup { collection_id }
          IN  \E result \in { "raise", "answered" } :
                IF result = "raise"
                THEN /\ requests' = Append(requests,
                            Request("update_item", updated_collections, item_version, "raise"))
                     /\ errors_logged' = errors_logged + 1
                     /\ pc' = after_raise("update_item")
                     /\ UNCHANGED library
                ELSE IF item_version = library.version
                THEN /\ requests' = Append(requests,
                            Request("update_item", updated_collections, item_version, "updated"))
                     /\ library' = [collections |-> updated_collections,
                                    version |-> library.version + 1]
                     /\ pc' = "call"
                     /\ UNCHANGED errors_logged
                ELSE /\ requests' = Append(requests,
                            Request("update_item", updated_collections, item_version, "stale"))
                     /\ errors_logged' = errors_logged + 1
                     /\ pc' = after_raise("update_item")
                     /\ UNCHANGED library
  /\ item_data' = None
  /\ UNCHANGED << call_count, other_changes, item_key, collection_id, merge_vars, dedup_df, row_i,
                  item_created_now, zotero_template, template_source, calls, processed_count,
                  added_count, failed_count, outcomes, year_arg, year_ret, ris_row, ris_entry >>

\* Another client of the library changes the collections of the item; the
\* library raises the version of the item.
OtherClient ==
  /\ pc \in { "call", "fetched" }
  /\ other_changes < MaxOtherChanges
  /\ other_changes' = other_changes + 1
  /\ \E c \in SUBSET Collections :
       /\ c # library.collections
       /\ library' = [collections |-> c, version |-> library.version + 1]
  /\ UNCHANGED << pc, item_data, requests, errors_logged, call_count, merge_vars, import_vars,
                  year_arg, year_ret, ris_row, ris_entry >>

CollectionNext ==
  \/ FetchItem
  \/ UpdateItem
  \/ OtherClient

CollectionSpec == CollectionInit /\ [][CollectionNext]_vars

\* ------------------------------------------------------------------ claims
\* The merge has partitioned the sorted table and not yet dropped its key columns.
AfterPartition == pc = "save"

\* Both output files are written.
Saved == pc \in { "check2", "check3", "check5", "verified" }

InTable(df, label) == \E k \in 1..Len(df) : df[k].index = label

Labels(df) == { df[k].index : k \in 1..Len(df) }

\* C1: after the partition, canonical rows plus duplicate rows are as many as the
\* rows of the two sources together, and every input row (by its row label) is in
\* exactly one of the two partitions; the two files written hold that many rows.
C1_RowConservation ==
  /\ AfterPartition =>
       /\ Len(deduplicated_df) + Len(duplicates_df) = Len(wos_xls) + Len(psyc_xls)
       /\ Cardinality(Labels(deduplicated_df)) = Len(deduplicated_df)
       /\ Cardinality(Labels(duplicates_df)) = Len(duplicates_df)
       /\ \A label \in 0..(Len(wos_xls) + Len(psyc_xls) - 1) :
            InTable(deduplicated_df, label) # InTable(duplicates_df, label)
  /\ Saved =>
       Len(merged_papers_csv) + Len(duplicates_removed_csv) = Len(wos_xls) + Len(psyc_xls)

C1_Witness ==
  /\ pc = "verified"
  /\ Len(wos_xls) > 0 /\ Len(psyc_xls) > 0
  /\ Len(merged_papers_csv) >= 2
  /\ Len(duplicates_removed_csv) >= 1

\* Lower-cased and trimmed text of a DOI cell, missing cells left out.
NormDois(df, col) == { strip(lower(df[i][col])) : i \in { k \in 1..Len(df) : notna(df[k][col]) } }

CountNorm(df, d) ==
  Cardinality({ i \in 1..Len(df) : notna(df[i].DOI) /\ strip(lower(df[i].DOI)) = d })

\* C2: every DOI that both sources hold after lower-casing and trimming is the
\* normalised DOI of exactly one row of the canonical table, and, unless it is
\* the empty text of a blank cell, of exactly one row of merged_papers.csv.
C2_SharedDoiOnce ==
  (AfterPartition \/ Saved) =>
    \A d \in NormDois(wos_xls, "DOI") \cap NormDois(psyc_xls, "doi") :
      /\ CountNorm(deduplicated_df, d) = 1
      /\ (Saved /\ d # << >>) => CountNorm(merged_papers_csv, d) = 1

C2_Witness ==
  /\ pc = "verified"
  /\ \E i \in 1..Len(wos_xls), j \in 1..Len(psyc_xls) :
       /\ notna(wos_xls[i].DOI) /\ notna(psyc_xls[j].doi)
       /\ wos_xls[i].DOI # psyc_xls[j].doi
       /\ strip(lower(wos_xls[i].DOI)) = strip(lower(psyc_xls[j].doi))
       /\ strip(lower(wos_xls[i].DOI)) # << >>
       /\ CountNorm(merged_papers_csv, strip(lower(wos_xls[i].DOI))) = 1
       /\ Len(duplicates_removed_csv) >= 1

\* C3: the paper_id values of the canonical output are exactly 1..N, N the number
\* of canonical rows, each once (none when there are no rows).
C3_PaperIdsExact ==
  Saved =>
    /\ { merged_papers_csv[i].paper_id : i \in 1..Len(merged_papers_csv) }
         = 1..Len(merged_papers_csv)
    /\ { deduplicated_df[i].paper_id : i \in 1..Len(deduplicated_df) }
         = 1..Len(deduplicated_df)
    /\ Len(merged_papers_csv) = Len(deduplicated_df)

\* Canonical rows on both sides of a removed row: the labels left by the filter have a gap.
C3_Witness ==
  /\ pc = "verified"
  /\ Len(merged_papers_csv) >= 2
  /\ \E i \in 2..(Len(combined_df) - 1) :
       /\ InTable(duplicates_df, combined_df[i].index)
       /\ ~InTable(duplicates_df, combined_df[1].index)
       /\ ~InTable(duplicates_df, combined_df[Len(combined_df)].index)

\* Row i of the sorted table went to the duplicate set.
Removed(i) == InTable(duplicates_df, combined_df[i].index)

\* C4 as stated: a row removed by the secondary key lacks a DOI and so does an
\* earlier row sharing its Secondary_Key (a blank DOI cell counted as lacking).
C4_Original ==
  AfterPartition =>
    \A i \in 1..Len(combined_df) :
      (Removed(i) /\ isna(combined_df[i].DOI)) =>
        \E j \in 1..(i - 1) :
          /\ isna(combined_df[j].DOI) \/ combined_df[j].DOI = << >>
          /\ combined_df[j].Secondary_Key = combined_df[i].Secondary_Key

\* C4 as amended: a row with a DOI is removed exactly when an earlier row of the
\* sorted table has the same normalised DOI (never because of a row without
\* one); a row without a DOI is removed exactly when an earlier row of the sorted
\* table, with or without a DOI, has the same Secondary_Key.
C4_Amended ==
  AfterPartition =>
    \A i \in 1..Len(combined_df) :
      /\ InTable(deduplicated_df, combined_df[i].index) = ~Removed(i)
      /\ notna(combined_df[i].DOI) =>
           (Removed(i) <=> \E j \in 1..(i - 1) : combined_df[j].DOI = combined_df[i].DOI)
      /\ isna(combined_df[i].DOI) =>
           (Removed(i) <=> \E j \in 1..(i - 1) :
                             combined_df[j].Secondary_Key = combined_df[i].Secondary_Key)

\* A row without a DOI removed although every earlier row sharing its key has a DOI,
\* and a row with a DOI kept although a row without one shares its key.
C4_Witness ==
  /\ AfterPartition
  /\ \E i \in 1..Len(combined_df) :
       /\ isna(combined_df[i].DOI)
       /\ Removed(i)
       /\ \A j \in 1..(i - 1) :
            combined_df[j].Secondary_Key = combined_df[i].Secondary_Key
              => notna(combined_df[j].DOI)
  /\ \E i \in 1..Len(combined_df) :
       /\ notna(combined_df[i].DOI)
       /\ ~Removed(i)
       /\ \E j \in 1..(i - 1) :
            /\ isna(combined_df[j].DOI)
            /\ combined_df[j].Secondary_Key = combined_df[i].Secondary_Key

SameTitleAuthors(a, b) == a.Article_Title = b.Article_Title /\ a.Authors = b.Authors

SameTitleAuthorsYear(a, b) == SameTitleAuthors(a, b) /\ a.Publication_Year = b.Publication_Year

\* Rows i and j lack a DOI and no third row has the title, authors and year of either.
DoiLessPair(i, j) ==
  /\ i < j
  /\ isna(combined_df[i].DOI) /\ isna(combined_df[j].DOI)
  /\ \A k \in 1..Len(combined_df) \ { i, j } :
       /\ ~SameTitleAuthorsYear(combined_df[k], combined_df[i])
       /\ ~SameTitleAuthorsYear(combined_df[k], combined_df[j])

\* C6: of two rows without a DOI whose normalised title, authors and year are
\* equal (and that no third row repeats) one is canonical and the other is in the
\* duplicate set; two such rows that differ only in the year are both canonical.
C6_SecondaryKeyMerge ==
  AfterPartition =>
    \A i, j \in 1..Len(combined_df) :
      DoiLessPair(i, j) =>
        /\ SameTitleAuthorsYear(combined_df[i], combined_df[j]) => (~Removed(i) /\ Removed(j))
        /\ (SameTitleAuthors(combined_df[i], combined_df[j])
              /\ combined_df[i].Publication_Year # combined_df[j].Publication_Year)
             => (~Removed(i) /\ ~Removed(j))

C6_Witness ==
  /\ AfterPartition
  /\ \E i, j, k \in 1..Len(combined_df) :
       /\ i < j
       /\ isna(combined_df[i].DOI) /\ isna(combined_df[j].DOI) /\ isna(combined_df[k].DOI)
       /\ SameTitleAuthorsYear(combined_df[i], combined_df[j])
       /\ combined_df[i].Source_DB # combined_df[j].Source_DB
       /\ ~Removed(i) /\ Removed(j)
       /\ SameTitleAuthors(combined_df[i], combined_df[k])
       /\ combined_df[i].Publication_Year # combined_df[k].Publication_Year
       /\ ~Removed(k)

\* The three strategies have run for the record in hand.
StrategiesDone == pc = "counts"

CallsTo(log, op) == { i \in 1..Len(log) : log[i].op = op }

\* The call logs of the record in hand, once its strategies have run, and of
\* every record already counted.
FinishedLogs ==
  (IF StrategiesDone THEN { calls } ELSE { }) \cup { outcomes[i].calls : i \in 1..Len(outcomes) }

RegistryGave(log, r) == \E i \in CallsTo(log, "cr.works") : log[i].result = r

\* C7 as stated: when the registry returned a structured record, one item
\* creation is made and neither the identifier lookup nor the manual mapping.
C7_Original ==
  \A log \in FinishedLogs :
    RegistryGave(log, "message") =>
      /\ Cardinality(CallsTo(log, "create_items")) = 1
      /\ CallsTo(log, "add_items_by_identifier") = { }
      /\ CallsTo(log, "find_original_record") = { }

\* C7 as amended: when the registry returned a structured record and the creation
\* from it succeeded, the record's calls are the query and that one creation;
\* when that creation was rejected or raised, the identifier lookup follows it.
C7_Amended ==
  \A log \in FinishedLogs :
    RegistryGave(log, "message") =>
      /\ Len(log) >= 2
      /\ log[1].op = "cr.works"
      /\ log[2].op = "create_items" /\ log[2].arg = "CrossRef"
      /\ log[2].result = "successful" =>
           /\ Len(log) = 2
           /\ Cardinality(CallsTo(log, "create_items")) = 1
           /\ CallsTo(log, "add_items_by_identifier") = { }
           /\ CallsTo(log, "find_original_record") = { }
      /\ log[2].result # "successful" =>
           /\ Len(log) >= 3
           /\ log[3].op = "add_items_by_identifier"

C7_Witness ==
  /\ pc = "finished"
  /\ \E i \in 1..Len(outcomes) :
       /\ RegistryGave(outcomes[i].calls, "message")
       /\ Len(outcomes[i].calls) = 2
       /\ outcomes[i].calls[2].result = "successful"
       /\ outcomes[i].result = "succeeded"

\* The lookup of this log answered unchanged with a key.
Unchanged(log, i) ==
  /\ i \in CallsTo(log, "add_items_by_identifier")
  /\ log[i].result = "unchanged"

\* C8: when the registry returned nothing and the identifier lookup answered
\* unchanged with key K, the record is marked found and not created, the
\* collection check is invoked for K right after the lookup, no manual mapping
\* is attempted, and the record is counted as succeeded with key K.
C8_UnchangedIsFound ==
  /\ StrategiesDone =>
       \A i \in 1..Len(calls) :
         (RegistryGave(calls, "empty") /\ Unchanged(calls, i)) =>
           /\ item_created_now = FALSE
           /\ item_key = calls[i].key
  /\ \A n \in 1..Len(outcomes) :
       LET log == outcomes[n].calls
       IN  \A i \in 1..Len(log) :
             (RegistryGave(log, "empty") /\ Unchanged(log, i)) =>
               /\ outcomes[n].item_created_now = FALSE
               /\ outcomes[n].item_key = log[i].key
               /\ outcomes[n].result = "succeeded"
               /\ Len(log) > i
               /\ log[i + 1].op = "add_existing_item_to_collection"
               /\ log[i + 1].arg = log[i].key
               /\ CallsTo(log, "find_original_record") = { }
               /\ CallsTo(log, "create_items") = { }
               /\ added_count >= 1

C8_Witness ==
  /\ pc = "finished"
  /\ \E n \in 1..Len(outcomes) :
       LET log == outcomes[n].calls
       IN  /\ RegistryGave(log, "empty")
           /\ Unchanged(log, 2)
           /\ log[2].key = "K2"
           /\ CallsTo(log, "update_item") # { }
           /\ outcomes[n].result = "succeeded"

\* The importer has stopped: it printed its summary or an exception ended it.
Stopped == pc \in { "finished", "crashed" }

\* C9: when the importer has stopped, every canonical record has exactly one
\* outcome, succeeded or failed, in canonical order.
C9_NoFailureIsFatal ==
  Stopped =>
    /\ Len(outcomes) = Len(dedup_df)
    /\ \A i \in 1..Len(outcomes) :
         /\ outcomes[i].paper_id = dedup_df[i].paper_id
         /\ outcomes[i].result \in { "succeeded", "failed" }
    /\ processed_count = Len(dedup_df)

\* The merge script was ended by an exception.
MergeHalted == pc = "crashed"

\* C11: the year coercion of the merge never raises: whatever the raw date cells
\* of the second source hold, the script does not halt at the year extraction,
\* and every Publication Year of the combined table is an integer or a null.
C11_YearCoercionNeverRaises ==
  /\ ~MergeHalted
  /\ \A i \in 1..Len(combined_df) :
       combined_df[i].Publication_Year.na \/ combined_df[i].Publication_Year.v \in Nat

\* C10: once the DOI-overlap check has printed its verdict, every DOI of both
\* sources whose count in the canonical output is not one (zero, or two and
\* more) has made the verdict FAIL and is reported with its count.
C10_OverlapCheckExact ==
  check2.verdict # "none" =>
    \A d \in overlapping_dois(wos_xls, psyc_xls) :
      doi_count(merged_papers_csv, d) # 1 =>
        /\ check2.verdict = "FAIL"
        /\ << d, doi_count(merged_papers_csv, d) >> \in check2.reported

\* standardize_year has returned.
YearReturned == pc = "year_returned"

\* The text form of the value handed to standardize_year.
YearText == astype_str(year_arg)

\* A run of digits of YearText that no digit precedes or follows: from i to j.
DigitRun(i, j) ==
  /\ i <= j /\ j <= Len(YearText)
  /\ \A k \in i..j : IsDigit(YearText[k])
  /\ i = 1 \/ ~IsDigit(YearText[i - 1])
  /\ j = Len(YearText) \/ ~IsDigit(YearText[j + 1])

\* Where the runs of exactly four digits start, and the runs of four or more.
RunsOfFour == { i \in 1..Len(YearText) : DigitRun(i, i + 3) }

RunsOfFourOrMore == { i \in 1..Len(YearText) : \E j \in (i + 3)..Len(YearText) : DigitRun(i, j) }

\* C12 as stated: standardize_year returns the empty text for a missing value,
\* else the first run of exactly four digits of the text form, else, when there
\* is no such run, the trimmed text form.
C12_Original ==
  YearReturned =>
    IF isna(year_arg) THEN year_ret = << >>
    ELSE IF RunsOfFour # { }
      THEN \E i \in RunsOfFour :
             /\ \A j \in RunsOfFour : i <= j
             /\ year_ret = SubSeq(YearText, i, i + 3)
    ELSE year_ret = strip(YearText)

\* C12 as amended: standardize_year returns the empty text for a missing value,
\* else the first four digits of the first run of four or more digits of the
\* text form, else, when no run is that long, the trimmed text form.
C12_Amended ==
  YearReturned =>
    IF isna(year_arg) THEN year_ret = << >>
    ELSE IF RunsOfFourOrMore # { }
      THEN \E i \in RunsOfFourOrMore :
             /\ \A j \in RunsOfFourOrMore : i <= j
             /\ year_ret = SubSeq(YearText, i, i + 3)
    ELSE year_ret = strip(YearText)

\* A run of five digits was handed in and its first four came back.
C12_Witness ==
  /\ YearReturned
  /\ year_arg = << "1", "9", "9", "1", "9" >>
  /\ year_ret = << "1", "9", "9", "1" >>

\* format_ris_entry has returned.
RisReturned == pc = "ris_returned"

PyLines == { i \in 1..Len(ris_entry) : SubSeq(ris_entry[i], 1, 2) = << "P", "Y" >> }

\* The year of the row in hand is not null and int() converts it.
YearConverts ==
  /\ ris_row.Publication_Year.kind # "nan"
  /\ ris_row.Publication_Year.kind = "str" => IsDigits(strip(ris_row.Publication_Year.text))

\* C13: the block has a PY line exactly when the year is not null and converts
\* to an integer, there is then one such line and it is PY, two spaces, a
\* hyphen, a space and the digits of that integer (PY  - 2021 for 2021.0); the
\* first line of every block is the TY line and the last is the ER line.
C13_PyLineIffInteger ==
  RisReturned =>
    /\ (PyLines # { }) <=> YearConverts
    /\ \A i \in PyLines :
         /\ Cardinality(PyLines) = 1
         /\ ris_entry[i] = << "P", "Y", " ", " ", "-", " ", "2", "0", "2", "1" >>
    /\ ris_entry[1] = << "T", "Y", " ", " ", "-", " ", "J", "O", "U", "R" >>
    /\ ris_entry[Len(ris_entry)] = << "E", "R", " ", " ", "-", " " >>

\* The year 2021.0 was formatted and a DOI line follows its PY line.
C13_Witness ==
  /\ RisReturned
  /\ ris_row.Publication_Year = YearFloat(2021, << "0" >>)
  /\ \E i \in 2..(Len(ris_entry) - 2) :
       /\ ris_entry[i] = << "P", "Y", " ", " ", "-", " ", "2", "0", "2", "1" >>
       /\ SubSeq(ris_entry[i + 1], 1, 2) = << "D", "O" >>

\* pd.notna(doi_std) and doi_std, for record n of the canonical table.
RecordHasDoi(n) == notna(dedup_df[n].DOI) /\ dedup_df[n].DOI # << >>

\* The calls made so far for the record in hand and for every record already
\* counted, each with whether the record has a DOI and whether its strategies
\* have all run.
RecordLogs ==
  (IF pc \in { "strategy1", "create", "strategy2", "strategy3", "counts", "crashed" }
   THEN { [log |-> calls, doi |-> RecordHasDoi(row_i), done |-> pc = "counts"] }
   ELSE { })
    \cup { [log |-> outcomes[n].calls, doi |-> RecordHasDoi(n), done |-> TRUE] :
             n \in 1..Len(outcomes) }

\* The strategy a call belongs to; the collection check belongs to the lookup.
StrategyOf(c) ==
  IF c.op = "cr.works" \/ (c.op = "create_items" /\ c.arg = "CrossRef") THEN 1
  ELSE IF c.op \in { "add_items_by_identifier", "add_existing_item_to_collection",
                     "item", "update_item" } THEN 2
  ELSE 3

\* The calls that try to obtain an item.
StrategyOps ==
  { "cr.works", "create_items", "add_items_by_identifier",
    "find_original_record", "create_template_from_original" }

\* A call before position i returned an item key.
KeyBefore(log, i) == \E j \in 1..(i - 1) : log[j].key # None

\* C14: for every record, the calls are made in the order remote-metadata,
\* identifier lookup, manual mapping; the registry is queried exactly when the
\* record has a DOI; the identifier lookup is made exactly when the record has a
\* DOI and strategy 1 returned no key (the creation was rejected with 412 or
\* otherwise, raised, or was not attempted); the manual mapping is attempted
\* exactly when no earlier call returned a key; no call of any strategy follows
\* a call that returned a key.
C14_StrategyOrder ==
  \A r \in RecordLogs :
    /\ \A i, j \in 1..Len(r.log) : i < j => StrategyOf(r.log[i]) <= StrategyOf(r.log[j])
    /\ \A i \in 1..Len(r.log) : r.log[i].op \in StrategyOps => ~KeyBefore(r.log, i)
    /\ \A i \in CallsTo(r.log, "cr.works") : r.doi /\ i = 1
    /\ \A i \in CallsTo(r.log, "add_items_by_identifier") : r.doi
    /\ Cardinality(CallsTo(r.log, "cr.works")) <= 1
    /\ Cardinality(CallsTo(r.log, "add_items_by_identifier")) <= 1
    /\ Cardinality(CallsTo(r.log, "find_original_record")) <= 1
    /\ r.done =>
         /\ (CallsTo(r.log, "cr.works") # { }) <=> r.doi
         /\ (CallsTo(r.log, "add_items_by_identifier") # { }) <=>
              (r.doi /\ \A i \in 1..Len(r.log) : StrategyOf(r.log[i]) = 1 => r.log[i].key = None)
         /\ (CallsTo(r.log, "find_original_record") # { }) <=>
              (\A i \in 1..Len(r.log) : StrategyOf(r.log[i]) \in { 1, 2 } => r.log[i].key = None)

\* A record went through all three: the creation from the registry record was
\* rejected with 412, the lookup failed, and the manual creation returned a key.
C14_Witness ==
  /\ pc = "finished"
  /\ \E n \in 1..Len(outcomes) :
       LET log == outcomes[n].calls
       IN  /\ Len(log) = 5
           /\ log[1].op = "cr.works" /\ log[1].result = "message"
           /\ log[2].op = "create_items" /\ log[2].result = "failed_412"
           /\ log[3].op = "add_items_by_identifier" /\ log[3].result = "failed"
           /\ log[4].op = "find_original_record"
           /\ log[5].op = "create_items" /\ log[5].result = "successful"
           /\ outcomes[n].result = "succeeded"

\* C15: every row of the duplicate set repeats a row of the canonical set under
\* its own key rule: a removed row with a DOI has the normalised DOI of some
\* canonical row, a removed row without a DOI has the Secondary_Key of some
\* canonical row.
C15_DuplicateRepeatsCanonical ==
  AfterPartition =>
    \A i \in 1..Len(combined_df) :
      Removed(i) =>
        \E j \in 1..Len(combined_df) :
          /\ ~Removed(j)
          /\ IF notna(combined_df[i].DOI)
             THEN combined_df[j].DOI = combined_df[i].DOI
             ELSE combined_df[j].Secondary_Key = combined_df[i].Secondary_Key

\* The rows of the two sources as they were combined, before any normalisation.
InputRows == concat(wos_xls, psyc_xls)

\* The output row carries the DOI, title and authors of this input row as they
\* were read (a missing or empty cell is an empty field of the file).
DisplayValuesOf(out, in) ==
  /\ out.Source_DB = in.Source_DB
  /\ out.DOI = csv_cell(in.DOI)
  /\ out.Article_Title = csv_cell(in.Article_Title)
  /\ out.Authors = csv_cell(in.Authors)

\* C16: every row written to merged_papers.csv and to duplicates_removed.csv
\* carries the DOI, Article Title and Authors of an input row exactly as that
\* row held them, not lower-cased or trimmed.
C16_DisplayCaseRetained ==
  Saved =>
    /\ \A i \in 1..Len(merged_papers_csv) :
         \E k \in 1..Len(InputRows) : DisplayValuesOf(merged_papers_csv[i], InputRows[k])
    /\ \A i \in 1..Len(duplicates_removed_csv) :
         \E k \in 1..Len(InputRows) : DisplayValuesOf(duplicates_removed_csv[i], InputRows[k])

\* C17: in the canonical table every record with a DOI has a smaller paper_id
\* than every record without one, and of two records with DOIs the one whose
\* normalised DOI sorts first has the smaller paper_id.
C17_PaperIdFollowsSortOrder ==
  Saved =>
    \A i, j \in 1..Len(deduplicated_df) :
      /\ (notna(deduplicated_df[i].DOI) /\ isna(deduplicated_df[j].DOI))
           => deduplicated_df[i].paper_id < deduplicated_df[j].paper_id
      /\ (notna(deduplicated_df[i].DOI) /\ notna(deduplicated_df[j].DOI)
            /\ StrLess(deduplicated_df[i].DOI, deduplicated_df[j].DOI))
           => deduplicated_df[i].paper_id < deduplicated_df[j].paper_id

\* The requests that ended in an error: a raised exception, no data, a stale version.
FailedRequests == { i \in 1..Len(requests) : requests[i].result \in { "raise", "no_data", "stale" } }

\* Request i fetched the item and no request of the same call follows it yet.
FetchInHand(i) == pc = "fetched" /\ i = Len(requests)

\* C18: add_existing_item_to_collection updates only after a fetch that
\* returned the item without the target collection, and the update carries the
\* fetched collections plus the target collection and the version that was
\* fetched; a fetch that shows the item in the target collection is followed by
\* no update; the library takes an update only at its current version; a
\* raised exception, an empty answer and a stale version are each logged as one
\* error and never reach the caller.
C18_OptimisticUpdate ==
  /\ pc # "propagated"
  /\ errors_logged = Cardinality(FailedRequests)
  /\ \A i \in 1..Len(requests) :
       /\ requests[i].op = "update_item" =>
            /\ i > 1
            /\ requests[i - 1].op = "item" /\ requests[i - 1].result = "data"
            /\ collection_id \notin requests[i - 1].collections
            /\ requests[i].collections = requests[i - 1].collections \cup { collection_id }
            /\ requests[i].version = requests[i - 1].version
            /\ requests[i].result = "stale" => library.version > requests[i].version
       /\ (requests[i].op = "item" /\ requests[i].result = "data" /\ ~FetchInHand(i)) =>
            IF collection_id \in requests[i].collections
            THEN i = Len(requests) \/ requests[i + 1].op = "item"
            ELSE i < Len(requests) /\ requests[i + 1].op = "update_item"
       /\ requests[i].op = "item" /\ requests[i].result # "data" =>
            i = Len(requests) \/ requests[i + 1].op = "item"

\* Another client changed the item between the fetch and the update of the first
\* call, whose update was rejected as stale and logged; the second call fetched
\* the new version and its update was taken.
C18_Witness ==
  /\ pc = "call"
  /\ call_count = 2
  /\ Len(requests) = 4
  /\ requests[2].op = "update_item" /\ requests[2].result = "stale"
  /\ requests[4].op = "update_item" /\ requests[4].result = "updated"
  /\ requests[4].version > requests[2].version
  /\ errors_logged = 1
  /\ collection_id \in library.collections

\* The manual mapping has built a template for the record in hand.
ManualTemplateBuilt == pc = "counts" /\ template_source = "Original XLS"

\* The non-empty entries of the author cell of the located raw record.
LocatedAuthors == stripped_nonempty(split(located.row.Authors, ";"))

\* C19: the template built from the located raw record, of either source, holds
\* one author creator per non-empty semicolon-separated entry of its author
\* cell, in order; an entry with a comma gives the text before the first comma
\* as lastName and the text after it as firstName.
C19_CreatorPerAuthor ==
  ManualTemplateBuilt =>
    /\ Len(zotero_template.creators) = Len(LocatedAuthors)
    /\ \A i \in 1..Len(zotero_template.creators) :
         /\ zotero_template.creators[i].creatorType = "author"
         /\ find(LocatedAuthors[i], ",") > 0 =>
              /\ zotero_template.creators[i].lastName
                   = strip(SubSeq(LocatedAuthors[i], 1, find(LocatedAuthors[i], ",") - 1))
              /\ zotero_template.creators[i].firstName
                   = strip(SubSeq(LocatedAuthors[i], find(LocatedAuthors[i], ",") + 1,
                                  Len(LocatedAuthors[i])))

\* No record is in hand: the loop is between two iterations or has ended.
BetweenRecords == pc \in { "loop", "finished" }

\* Some call made for the record returned an item key.
KeyReturned(log) == \E i \in 1..Len(log) : log[i].key # None

CountedWithKey == { n \in 1..Len(outcomes) : KeyReturned(outcomes[n].calls) }

\* C20: between two records and at the summary, processed_count is added_count
\* plus failed_count and the number of records counted so far; added_count is
\* the number of those for which some call returned an item key, failed_count
\* the number of the others; at the summary processed_count is the number of
\* canonical records.
C20_CounterInvariant ==
  /\ BetweenRecords =>
       /\ processed_count = added_count + failed_count
       /\ processed_count = Len(outcomes)
  /\ added_count = Cardinality(CountedWithKey)
  /\ failed_count = Len(outcomes) - Cardinality(CountedWithKey)
  /\ \A n \in 1..Len(outcomes) :
       (outcomes[n].result = "succeeded") <=> (n \in CountedWithKey)
  /\ pc = "finished" =>
       /\ processed_count = Len(dedup_df)
       /\ added_count + failed_count = Len(dedup_df)

\* The summary of a run over two records: one was found unchanged in the
\* library, for the other no strategy returned a key.
C20_Witness ==
  /\ pc = "finished"
  /\ processed_count = 2 /\ added_count = 1 /\ failed_count = 1
  /\ \E n \in 1..Len(outcomes) :
       /\ outcomes[n].result = "succeeded"
       /\ ~outcomes[n].item_created_now

====
